---- MODULE Spec2Model ----
(***************************************************************************)
(* BudgetBuddy: the recurring-transaction scheduler of database.py and     *)
(* its caller recurring_transactions.py.                                   *)
(*                                                                         *)
(* The store is the SQLite file behind database.py: the tables             *)
(* recurring_transactions, income, expenses, goals and audit_logs.  Dates  *)
(* are kept in the store as ISO text 'YYYY-MM-DD' (modelled as the tuple   *)
(* of its three numeric fields) and are turned into date objects (records  *)
(* year/month/day) by datetime.strptime and back by str().  The login of   *)
(* auth.py adds the table login_attempts, the st.session_state of each     *)
(* browser session and the time.time() clock, in seconds.                  *)
(***************************************************************************)
EXTENDS Integers, Sequences, FiniteSets, TLC

VARIABLES today, rules, nextId, income, expenses, audit_logs, last, tab, calc, goals,
          now, login_attempts, session

authVars == <<now, login_attempts, session>>

vars == <<today, rules, nextId, income, expenses, audit_logs, last, tab, calc, goals,
          authVars>>

storeVars == <<rules, nextId, income, expenses, audit_logs>>

-----------------------------------------------------------------------------
(* Bounds of the model *)

MaxRules == 2
MaxLedger == 3
MaxYears == 2
MaxSteps == 2
MaxAudit == 4
MaxSaved == 100

-----------------------------------------------------------------------------
(* Calendar: datetime.date, calendar.monthrange, timedelta *)

Years == 2023..(2023 + MaxYears)

IsLeap(y) == (y % 4 = 0) /\ ((y % 100 # 0) \/ (y % 400 = 0))

DaysInMonth(y, m) ==
    IF m = 2 THEN (IF IsLeap(y) THEN 29 ELSE 28)
    ELSE IF m \in {4, 6, 9, 11} THEN 30 ELSE 31

MkDate(y, m, d) == [year |-> y, month |-> m, day |-> d]

\* str(date): the ISO text, as the tuple of its fields
Str(d) == <<d.year, d.month, d.day>>

\* datetime.strptime(text, '%Y-%m-%d').date(): ValueError on a text that is
\* not a calendar date
Strptime(s) ==
    IF s[2] \in 1..12 /\ s[3] \in 1..DaysInMonth(s[1], s[2])
    THEN [raised |-> FALSE, value |-> MkDate(s[1], s[2], s[3])]
    ELSE [raised |-> TRUE]

\* SQLite date(text) <= date(text): ISO texts compare as calendar dates
SqlDateLE(s, t) ==
    \/ s[1] < t[1]
    \/ s[1] = t[1] /\ s[2] < t[2]
    \/ s[1] = t[1] /\ s[2] = t[2] /\ s[3] <= t[3]

DateLT(a, b) == Str(a) # Str(b) /\ SqlDateLE(Str(a), Str(b))

\* date + timedelta(days=1)
NextDay(d) ==
    IF d.day < DaysInMonth(d.year, d.month) THEN MkDate(d.year, d.month, d.day + 1)
    ELSE IF d.month < 12 THEN MkDate(d.year, d.month + 1, 1)
    ELSE MkDate(d.year + 1, 1, 1)

RECURSIVE AddDays(_, _)
\* date + timedelta(days=n), one day at a time; each day is bound to its
\* value before the next is taken
AddDays(d, n) ==
    IF n = 0 THEN d
    ELSE CHOOSE r \in {AddDays(e, n - 1) : e \in {NextDay(d)}} : TRUE

\* date.replace(year=y, month=m): ValueError when the day does not exist
Replace(d, y, m) ==
    IF d.day <= DaysInMonth(y, m)
    THEN [raised |-> FALSE, value |-> MkDate(y, m, d.day)]
    ELSE [raised |-> TRUE]

-----------------------------------------------------------------------------
(* The next-date computation of process_recurring_transactions *)

Frequencies == {"Daily", "Weekly", "Monthly", "3 Months", "6 Months", "Yearly"}

\* the "while month > 12" loop of the 3 Months and 6 Months branches
RECURSIVE WrapMonth(_, _)
WrapMonth(month, year) ==
    IF month > 12 THEN WrapMonth(month - 12, year + 1)
    ELSE [month |-> month, year |-> year]

\* mutant: the replace without its except branch
ReplaceOrLastDay_NoExcept(d, y, m) == Replace(d, y, m)

\* try: replace(year, month)  except ValueError: replace(..., day=last_day)
ReplaceOrLastDay(d, y, m) ==
    IF Replace(d, y, m).raised
    THEN [raised |-> FALSE, value |-> MkDate(y, m, DaysInMonth(y, m))]
    ELSE Replace(d, y, m)

\* mutant: the month is stepped and the day kept, whatever the month
MonthlyNext_DayKept(d) ==
    [raised |-> FALSE,
     value |-> IF d.month = 12 THEN MkDate(d.year + 1, 1, d.day)
               ELSE MkDate(d.year, d.month + 1, d.day)]

MonthlyNext(d) ==
    LET month == d.month + 1
    IN  IF month > 12 THEN ReplaceOrLastDay(d, d.year + 1, 1)
        ELSE ReplaceOrLastDay(d, d.year, month)

MultiMonthNext(d, k) ==
    LET w == WrapMonth(d.month + k, d.year)
    IN  ReplaceOrLastDay(d, w.year, w.month)

\* mutant: the year is not stepped
YearlyNext_SameYear(d) == Replace(d, d.year, d.month)

\* the Yearly branch: replace(year=year + 1) outside any try
YearlyNext(d) == Replace(d, d.year + 1, d.month)

\* new_next_date, or the ValueError that leaves the loop
NewNextDate(d, frequency) ==
    IF frequency = "Daily" THEN [raised |-> FALSE, value |-> AddDays(d, 1)]
    ELSE IF frequency = "Weekly" THEN [raised |-> FALSE, value |-> AddDays(d, 7)]
    ELSE IF frequency = "Monthly" THEN MonthlyNext(d)
    ELSE IF frequency = "3 Months" THEN MultiMonthNext(d, 3)
    ELSE IF frequency = "6 Months" THEN MultiMonthNext(d, 6)
    ELSE IF frequency = "Yearly" THEN YearlyNext(d)
    ELSE [raised |-> FALSE, value |-> d]

-----------------------------------------------------------------------------
(* The store *)

Users == {"u1", "u2"}
Types == {"Income", "Expense"}
Amounts == {0, 100}
FormFrequencies == {"Monthly", "Yearly"}
StartDates == {MkDate(2024, 1, 31), MkDate(2024, 2, 29)}
Clock == {MkDate(2024, 1, 31), MkDate(2024, 2, 29), MkDate(2024, 5, 31)}

CategoryOf(type) == IF type = "Income" THEN "Salary" ELSE "Rent"

\* a row of audit_logs
AuditRow(user_id, action, status) ==
    [user_id |-> user_id, action |-> action, category |-> "TRANSACTION", status |-> status]

\* the ids in S in ascending order (rowid order of a table scan)
RECURSIVE Ascending(_)
Ascending(S) ==
    IF S = {} THEN <<>>
    ELSE LET m == CHOOSE x \in S : \A y \in S : x <= y
         IN  <<m>> \o Ascending(S \ {m})

\* mutant: the SELECT without its user_id condition
DueTransactions_AnyOwner(store, user_id, day) ==
    LET ids == {i \in DOMAIN store : SqlDateLE(store[i].next_date, Str(day))}
        seq == Ascending(ids)
    IN  [k \in 1..Len(seq) |->
            [id |-> seq[k], type |-> store[seq[k]].type,
             category |-> store[seq[k]].category, amount |-> store[seq[k]].amount,
             frequency |-> store[seq[k]].frequency,
             next_date |-> store[seq[k]].next_date,
             description |-> store[seq[k]].description]]

\* SELECT id, type, category, amount, frequency, next_date, description
\* FROM recurring_transactions WHERE user_id = ? AND date(next_date) <= date(?)
DueTransactions(store, user_id, day) ==
    LET ids == {i \in DOMAIN store : /\ store[i].user_id = user_id
                                     /\ SqlDateLE(store[i].next_date, Str(day))}
        seq == Ascending(ids)
    IN  [k \in 1..Len(seq) |->
            [id |-> seq[k], type |-> store[seq[k]].type,
             category |-> store[seq[k]].category, amount |-> store[seq[k]].amount,
             frequency |-> store[seq[k]].frequency,
             next_date |-> store[seq[k]].next_date,
             description |-> store[seq[k]].description]]

\* mutant: the income row dated with the rule's next_date
IncomeRow_DatedNextDate(user_id, trans, day) ==
    [user_id |-> user_id, source |-> trans.category, amount |-> trans.amount,
     date |-> trans.next_date, notes |-> <<"[Recurring]", trans.description>>,
     from_rule |-> trans.id, occurrence |-> trans.next_date]

\* INSERT INTO income (user_id, source, amount, date, notes); from_rule and
\* occurrence (the rule and the next_date the row was made from) are history
\* fields of the model, not columns
IncomeRow(user_id, trans, day) ==
    [user_id |-> user_id, source |-> trans.category, amount |-> trans.amount,
     date |-> Str(day), notes |-> <<"[Recurring]", trans.description>>,
     from_rule |-> trans.id, occurrence |-> trans.next_date]

\* INSERT INTO expenses (user_id, category, amount, date, description)
ExpenseRow(user_id, trans, day) ==
    [user_id |-> user_id, category |-> trans.category, amount |-> trans.amount,
     date |-> Str(day), description |-> <<"[Recurring]", trans.description>>,
     from_rule |-> trans.id, occurrence |-> trans.next_date]

\* mutant: the UPDATE matches no row
UpdateNextDate_NoRow(store, id, new_next_date) == store

\* mutant: the UPDATE also sets start_date
UpdateNextDate_AlsoStart(store, id, new_next_date) ==
    IF id \in DOMAIN store
    THEN [store EXCEPT ![id].next_date = Str(new_next_date),
                       ![id].start_date = Str(new_next_date)]
    ELSE store

\* UPDATE recurring_transactions SET next_date = ? WHERE id = ?
UpdateNextDate(store, id, new_next_date) ==
    IF id \in DOMAIN store
    THEN [store EXCEPT ![id].next_date = Str(new_next_date)]
    ELSE store

\* the body of "for trans in due_transactions" on the open transaction st
ProcessOne(st, user_id, trans, day) ==
    LET inserted ==
            IF trans.type = "Income"
            THEN [st EXCEPT !.income = Append(@, IncomeRow(user_id, trans, day))]
            ELSE [st EXCEPT !.expenses = Append(@, ExpenseRow(user_id, trans, day))]
        counted == [inserted EXCEPT !.processed_count = @ + 1]
        next_date_obj == Strptime(trans.next_date)
        new_next_date == NewNextDate(next_date_obj.value, trans.frequency)
    IN  IF next_date_obj.raised THEN [counted EXCEPT !.raised = TRUE]
        ELSE IF new_next_date.raised THEN [counted EXCEPT !.raised = TRUE]
        ELSE [counted EXCEPT !.rules = UpdateNextDate(@, trans.id, new_next_date.value)]

RECURSIVE ProcessLoop(_, _, _, _)
\* the for loop; an exception leaves it with the transaction uncommitted
ProcessLoop(st, user_id, due, day) ==
    IF due = <<>> \/ st.raised THEN st
    ELSE ProcessLoop(ProcessOne(st, user_id, Head(due), day), user_id, Tail(due), day)

\* the uncommitted transaction at the end of the loop
RunProcess(user_id, due, day) ==
    ProcessLoop([income |-> income, expenses |-> expenses, rules |-> rules,
                 processed_count |-> 0, raised |-> FALSE],
                user_id, due, day)

\* mutant: the rows inserted before an exception stay in the ledger
Commit_KeepsRowsOnError(user_id, due, day, st) ==
    /\ rules' = IF st.raised THEN rules ELSE st.rules
    /\ income' = st.income
    /\ expenses' = st.expenses
    /\ audit_logs' = IF ~st.raised /\ st.processed_count > 0
                     THEN Append(audit_logs, AuditRow(user_id, "RECURRING_PROCESSED", "SUCCESS"))
                     ELSE audit_logs
    /\ last' = [op |-> "process", user_id |-> user_id, today |-> Str(day),
                raised |-> st.raised,
                ret |-> IF st.raised THEN -1 ELSE st.processed_count,
                due |-> due, n_income |-> Len(income), n_expenses |-> Len(expenses)]
    /\ UNCHANGED nextId

\* conn.commit(), the audit row and the return; an exception leaves the
\* function before the commit and the connection is dropped (rollback)
Commit(user_id, due, day, st) ==
    /\ rules' = IF st.raised THEN rules ELSE st.rules
    /\ income' = IF st.raised THEN income ELSE st.income
    /\ expenses' = IF st.raised THEN expenses ELSE st.expenses
    /\ audit_logs' = IF ~st.raised /\ st.processed_count > 0
                     THEN Append(audit_logs, AuditRow(user_id, "RECURRING_PROCESSED", "SUCCESS"))
                     ELSE audit_logs
    /\ last' = [op |-> "process", user_id |-> user_id, today |-> Str(day),
                raised |-> st.raised,
                ret |-> IF st.raised THEN -1 ELSE st.processed_count,
                due |-> due, n_income |-> Len(income), n_expenses |-> Len(expenses)]
    /\ UNCHANGED nextId

LedgerFull == Len(income) + Len(expenses) >= MaxLedger

\* process_recurring_transactions(user_id), one call run to its end
Process(user_id) ==
    /\ ~LedgerFull
    /\ Commit(user_id, DueTransactions(rules, user_id, today), today,
              RunProcess(user_id, DueTransactions(rules, user_id, today), today))
    /\ UNCHANGED <<today, tab, calc, goals, authVars>>

NoCall == [op |-> "none", user_id |-> "", today |-> <<0, 0, 0>>, raised |-> FALSE,
           ret |-> 0, due |-> <<>>, n_income |-> 0, n_expenses |-> 0]

\* mutant: the form without its amount check
AddRecurring_NoCheck(user_id, trans_type, amount, frequency, start_date) ==
    /\ nextId <= MaxRules
    /\ rules' = [i \in DOMAIN rules \cup {nextId} |->
                    IF i = nextId
                    THEN [user_id |-> user_id, type |-> trans_type,
                          category |-> CategoryOf(trans_type),
                          amount |-> amount, frequency |-> frequency,
                          start_date |-> Str(start_date),
                          next_date |-> Str(start_date),
                          description |-> "note"]
                    ELSE rules[i]]
    /\ nextId' = nextId + 1
    /\ audit_logs' = Append(audit_logs, AuditRow(user_id, "CREATE_RECURRING", "SUCCESS"))
    /\ last' = [NoCall EXCEPT !.op = "add", !.user_id = user_id]
    /\ UNCHANGED <<income, expenses, today, tab, calc, goals, authVars>>

\* the add form of recurring_transactions.py and add_recurring_transaction
AddRecurring(user_id, trans_type, amount, frequency, start_date) ==
    /\ nextId <= MaxRules
    /\ IF amount <= 0
       THEN /\ UNCHANGED storeVars
            /\ last' = [NoCall EXCEPT !.op = "rejected", !.user_id = user_id]
       ELSE /\ rules' = [i \in DOMAIN rules \cup {nextId} |->
                            IF i = nextId
                            THEN [user_id |-> user_id, type |-> trans_type,
                                  category |-> CategoryOf(trans_type),
                                  amount |-> amount, frequency |-> frequency,
                                  start_date |-> Str(start_date),
                                  next_date |-> Str(start_date),
                                  description |-> "note"]
                            ELSE rules[i]]
            /\ nextId' = nextId + 1
            /\ audit_logs' = Append(audit_logs, AuditRow(user_id, "CREATE_RECURRING", "SUCCESS"))
            /\ last' = [NoCall EXCEPT !.op = "add", !.user_id = user_id]
            /\ UNCHANGED <<income, expenses>>
    /\ UNCHANGED <<today, tab, calc, goals, authVars>>

\* mutant: the DELETE also removes the ledger rows made from the rule
DeleteRecurring_Cascade(user_id, transaction_id) ==
    LET Keep(r) == r.from_rule # transaction_id
    IN  /\ transaction_id \in DOMAIN rules
        /\ rules[transaction_id].user_id = user_id
        /\ rules' = [i \in DOMAIN rules \ {transaction_id} |-> rules[i]]
        /\ income' = SelectSeq(income, Keep)
        /\ expenses' = SelectSeq(expenses, Keep)
        /\ audit_logs' = Append(audit_logs, AuditRow("SYSTEM", "DELETE_RECURRING", "SUCCESS"))
        /\ last' = [NoCall EXCEPT !.op = "delete", !.user_id = user_id]
        /\ UNCHANGED <<today, nextId, tab, calc, goals, authVars>>

\* the Delete button of a listed rule and delete_recurring_transaction
DeleteRecurring(user_id, transaction_id) ==
    /\ transaction_id \in DOMAIN rules
    /\ rules[transaction_id].user_id = user_id
    /\ rules' = [i \in DOMAIN rules \ {transaction_id} |-> rules[i]]
    /\ audit_logs' = Append(audit_logs, AuditRow("SYSTEM", "DELETE_RECURRING", "SUCCESS"))
    /\ last' = [NoCall EXCEPT !.op = "delete", !.user_id = user_id]
    /\ UNCHANGED <<today, nextId, income, expenses, tab, calc, goals, authVars>>

IdleTabs == [t \in {1, 2} |-> [pc |-> "idle"]]

\* datetime.now().date() has moved on between two calls; a call in progress
\* ends the day it began
Tick(day) ==
    /\ tab = IdleTabs
    /\ DateLT(today, day)
    /\ today' = day
    /\ last' = [NoCall EXCEPT !.op = "tick"]
    /\ UNCHANGED <<storeVars, tab, calc, goals, authVars>>

\* the goals table: saved_amount summed over the goals of each user
NoGoals == [u \in Users |-> 0]

\* the browser sessions; st.session_state before a login
Sessions == {1, 2}
NoSession == [username |-> "", full_name |-> "", login_time |-> 0]
NoSessions == [s \in Sessions |-> NoSession]

\* time.time() when the program starts, and the instants it is looked at
FirstInstant == 100
Instants == {100, 101, 999, 1000, 1900, 1901, 2800}

\* the table login_attempts without a row for any username
NoRow == [attempts |-> 0, locked_until |-> 0]
NoAttempts == [u \in Users |-> NoRow]

IdleCalc == [frequency |-> "", first |-> <<0, 0, 0>>, date |-> <<0, 0, 0>>,
             prev |-> <<0, 0, 0>>, n |-> 0, raised |-> FALSE]

Init ==
    /\ today = MkDate(2024, 1, 31)
    /\ rules = <<>>
    /\ nextId = 1
    /\ income = <<>>
    /\ expenses = <<>>
    /\ audit_logs = <<>>
    /\ last = NoCall
    /\ tab = IdleTabs
    /\ calc = IdleCalc
    /\ goals = NoGoals
    /\ now = FirstInstant /\ login_attempts = NoAttempts /\ session = NoSessions

Next ==
    \/ \E u \in Users : Process(u)
    \/ \E u \in Users, ty \in Types, a \in Amounts, f \in FormFrequencies, s \in StartDates :
          AddRecurring(u, ty, a, f, s)
    \/ \E day \in Clock : Tick(day)

Spec == Init /\ [][Next]_vars

-----------------------------------------------------------------------------
(* Two page loads of one store that overlap: each runs                     *)
(* process_recurring_transactions on its own connection.  The SELECT reads *)
(* the committed rows; the INSERTs and UPDATEs of one call become visible  *)
(* to the other connection together, at conn.commit().                     *)

Tabs == {1, 2}

\* lines 983-995: connect, today, the SELECT and fetchall
TabSelect(t, user_id) ==
    /\ tab[t].pc = "idle"
    /\ ~LedgerFull
    /\ tab' = [tab EXCEPT ![t] = [pc |-> "fetched", user_id |-> user_id, day |-> today,
                                  due |-> DueTransactions(rules, user_id, today)]]
    /\ UNCHANGED <<today, storeVars, last, calc, goals, authVars>>

\* lines 997-1076: the loop over the fetched rows, the commit and the return
TabCommit(t) ==
    /\ tab[t].pc = "fetched"
    /\ Commit(tab[t].user_id, tab[t].due, tab[t].day,
              RunProcess(tab[t].user_id, tab[t].due, tab[t].day))
    /\ tab' = [tab EXCEPT ![t] = [pc |-> "idle"]]
    /\ UNCHANGED <<today, calc, goals, authVars>>

NextTabs ==
    \/ \E t \in Tabs, u \in Users : TabSelect(t, u)
    \/ \E t \in Tabs : TabCommit(t)
    \/ \E u \in Users, ty \in Types, a \in Amounts, f \in FormFrequencies, s \in StartDates :
          AddRecurring(u, ty, a, f, s)
    \/ \E day \in Clock : Tick(day)

SpecTabs == Init /\ [][NextTabs]_vars

-----------------------------------------------------------------------------
(* The next-date computation alone, applied to every date of Years and     *)
(* every frequency of the add forms, up to MaxSteps times in a row.        *)

IsoDates == {s \in Years \X (1..12) \X (1..31) : s[3] <= DaysInMonth(s[1], s[2])}

InitAdvance ==
    /\ today = MkDate(2024, 1, 31)
    /\ rules = <<>>
    /\ nextId = 1
    /\ income = <<>>
    /\ expenses = <<>>
    /\ audit_logs = <<>>
    /\ last = NoCall
    /\ tab = IdleTabs
    /\ goals = NoGoals
    /\ now = FirstInstant /\ login_attempts = NoAttempts /\ session = NoSessions
    /\ \E f \in Frequencies, s \in IsoDates :
          calc = [frequency |-> f, first |-> s, date |-> s, prev |-> <<0, 0, 0>>,
                  n |-> 0, raised |-> FALSE]

\* lines 1015-1061 on the stored text calc.date; the text written back by
\* the UPDATE is str(new_next_date)
AdvanceStep ==
    /\ calc.n < MaxSteps
    /\ ~calc.raised
    /\ LET next_date_obj == Strptime(calc.date)
           new_next_date == NewNextDate(next_date_obj.value, calc.frequency)
       IN  calc' = IF next_date_obj.raised \/ new_next_date.raised
                   THEN [calc EXCEPT !.raised = TRUE, !.prev = calc.date, !.n = @ + 1]
                   ELSE [calc EXCEPT !.date = Str(new_next_date.value),
                                     !.prev = calc.date, !.n = @ + 1]
    /\ UNCHANGED <<today, storeVars, last, tab, goals, authVars>>

NextAdvance == AdvanceStep

SpecAdvance == InitAdvance /\ [][NextAdvance]_vars

-----------------------------------------------------------------------------
(* The two computations on a frequency, calculate_monthly_equivalent and   *)
(* the next-date branches, applied once to a frequency text that is one of *)
(* the six or is not.  Amounts are whole numbers; a result is held as the  *)
(* exact number of Units-ths, the value the float result is nearest to.    *)

Unit == 300
CalcAmounts == {100, 300, 1200, 1400}
AnyFrequencies == Frequencies \cup {"Fortnightly"}
CalcDates == {<<2023, 12, 31>>, <<2024, 1, 31>>, <<2024, 2, 29>>}

\* mutant: a week counted as a quarter of a month
MonthlyEquivalent_FourWeeks(amount, frequency) ==
    IF frequency = "Daily" THEN [raised |-> FALSE, value |-> (amount * 30) * Unit]
    ELSE IF frequency = "Weekly" THEN [raised |-> FALSE, value |-> (amount * 4) * Unit]
    ELSE IF frequency = "Monthly" THEN [raised |-> FALSE, value |-> amount * Unit]
    ELSE IF frequency = "3 Months" THEN [raised |-> FALSE, value |-> (amount * Unit) \div 3]
    ELSE IF frequency = "6 Months" THEN [raised |-> FALSE, value |-> (amount * Unit) \div 6]
    ELSE IF frequency = "Yearly" THEN [raised |-> FALSE, value |-> (amount * Unit) \div 12]
    ELSE [raised |-> FALSE, value |-> amount * Unit]

\* calculate_monthly_equivalent(amount, frequency); the last line is the
\* "return amount" that follows the if chain
MonthlyEquivalent(amount, frequency) ==
    IF frequency = "Daily" THEN [raised |-> FALSE, value |-> (amount * 30) * Unit]
    ELSE IF frequency = "Weekly" THEN [raised |-> FALSE, value |-> (amount * 433 * Unit) \div 100]
    ELSE IF frequency = "Monthly" THEN [raised |-> FALSE, value |-> amount * Unit]
    ELSE IF frequency = "3 Months" THEN [raised |-> FALSE, value |-> (amount * Unit) \div 3]
    ELSE IF frequency = "6 Months" THEN [raised |-> FALSE, value |-> (amount * Unit) \div 6]
    ELSE IF frequency = "Yearly" THEN [raised |-> FALSE, value |-> (amount * Unit) \div 12]
    ELSE [raised |-> FALSE, value |-> amount * Unit]

InitCalc ==
    /\ today = MkDate(2024, 1, 31)
    /\ rules = <<>>
    /\ nextId = 1
    /\ income = <<>>
    /\ expenses = <<>>
    /\ audit_logs = <<>>
    /\ last = NoCall
    /\ tab = IdleTabs
    /\ goals = NoGoals
    /\ now = FirstInstant /\ login_attempts = NoAttempts /\ session = NoSessions
    /\ \E a \in CalcAmounts, f \in AnyFrequencies, s \in CalcDates :
          calc = [amount |-> a, frequency |-> f, date |-> s, done |-> "none",
                  raised |-> FALSE, value |-> 0, new_date |-> <<0, 0, 0>>]

\* monthly_impact = calculate_monthly_equivalent(amount, frequency)
EquivalentStep ==
    /\ calc.done = "none"
    /\ LET r == MonthlyEquivalent(calc.amount, calc.frequency)
       IN  calc' = IF r.raised
                   THEN [calc EXCEPT !.done = "equivalent", !.raised = TRUE]
                   ELSE [calc EXCEPT !.done = "equivalent", !.value = r.value]
    /\ UNCHANGED <<today, storeVars, last, tab, goals, authVars>>

\* lines 1015-1061 on the stored text calc.date with the frequency calc.frequency
AdvanceOnce ==
    /\ calc.done = "none"
    /\ LET next_date_obj == Strptime(calc.date)
           new_next_date == NewNextDate(next_date_obj.value, calc.frequency)
       IN  calc' = IF next_date_obj.raised \/ new_next_date.raised
                   THEN [calc EXCEPT !.done = "advance", !.raised = TRUE]
                   ELSE [calc EXCEPT !.done = "advance",
                                     !.new_date = Str(new_next_date.value)]
    /\ UNCHANGED <<today, storeVars, last, tab, goals, authVars>>

NextCalc == EquivalentStep \/ AdvanceOnce

SpecCalc == InitCalc /\ [][NextCalc]_vars

-----------------------------------------------------------------------------
(* The overview totals of the recurring page, in Units-ths *)

RECURSIVE SumEquivalents(_, _, _)
\* sum([calculate_monthly_equivalent(t['amount'], t['frequency']) for t in ...])
\* over the rows of the user of one type, in the order of their ids
SumEquivalents(user_id, type, n) ==
    IF n = 0 THEN 0
    ELSE (IF n \in DOMAIN rules /\ rules[n].user_id = user_id /\ rules[n].type = type
          THEN MonthlyEquivalent(rules[n].amount, rules[n].frequency).value
          ELSE 0)
         + SumEquivalents(user_id, type, n - 1)

RECURSIVE SumAmounts(_, _)
SumAmounts(table, n) ==
    IF n = 0 THEN 0 ELSE table[n].amount * Unit + SumAmounts(table, n - 1)

\* mutant: the total taken from the ledger rows of the user
TotalMonthly_FromLedger(user_id, type) ==
    LET Mine(r) == r.user_id = user_id
        rows == SelectSeq(IF type = "Income" THEN income ELSE expenses, Mine)
    IN  SumAmounts(rows, Len(rows))

\* total_monthly_income / total_monthly_expenses over the rows of
\* get_all_recurring_transactions(user_id) of one type
TotalMonthly(user_id, type) ==
    SumEquivalents(user_id, type, nextId - 1)

\* net_monthly = total_monthly_income - total_monthly_expenses
NetMonthly(user_id) == TotalMonthly(user_id, "Income") - TotalMonthly(user_id, "Expense")

\* the recurring page of two users over one change of day, with rules of
\* three frequencies starting today
OverviewFrequencies == {"Weekly", "Monthly", "Yearly"}

NextOverview ==
    \/ \E u \in Users : Process(u)
    \/ \E u \in Users, ty \in Types, f \in OverviewFrequencies :
          AddRecurring(u, ty, 100, f, MkDate(2024, 1, 31))
    \/ Tick(MkDate(2024, 2, 29))

SpecOverview == Init /\ [][NextOverview]_vars

-----------------------------------------------------------------------------
(* The income and expense pages next to the recurring page: manual rows,   *)
(* the money saved in goals, and the totals expense.py computes.           *)

IncomeAmounts == {0, 200}
ExpenseAmounts == {0, 100, 200}

RECURSIVE SumRows(_, _, _)
\* sum(item['amount'] for item in get_all_income(user_id)), the first n rows
SumRows(table, user_id, n) ==
    IF n = 0 THEN 0
    ELSE (IF table[n].user_id = user_id THEN table[n].amount ELSE 0)
            + SumRows(table, user_id, n - 1)

\* mutant: the rows made by the recurring processor left out of the total
Total_ManualOnly(table, user_id) ==
    LET Manual(r) == r.from_rule = 0
        rows == SelectSeq(table, Manual)
    IN  SumRows(rows, user_id, Len(rows))

\* total_income = sum(...) and total_expense = sum(...) of expense.py
Total(table, user_id) == SumRows(table, user_id, Len(table))

\* available_balance = total_income - total_expense - total_saved_in_goals
AvailableBalance(user_id) ==
    Total(income, user_id) - Total(expenses, user_id) - goals[user_id]

\* the income form and add_income_to_db
AddIncome(user_id, amount) ==
    /\ IF amount > 0
       THEN /\ ~LedgerFull /\ Len(audit_logs) < MaxAudit
            /\ income' = Append(income,
                    [user_id |-> user_id, source |-> "Salary", amount |-> amount,
                     date |-> Str(today), notes |-> <<"note">>,
                     from_rule |-> 0, occurrence |-> <<0, 0, 0>>])
            /\ audit_logs' = Append(audit_logs, AuditRow(user_id, "ADD_INCOME", "SUCCESS"))
            /\ last' = [op |-> "income", user_id |-> user_id, amount |-> amount,
                        stored |-> TRUE]
       ELSE /\ UNCHANGED <<income, audit_logs>>
            /\ last' = [op |-> "income", user_id |-> user_id, amount |-> amount,
                        stored |-> FALSE]
    /\ UNCHANGED <<today, rules, nextId, expenses, tab, calc, goals, authVars>>

\* mutant: the expense form without its balance check
SubmitExpense_NoBalanceCheck(user_id, amount) ==
    /\ IF amount > 0
       THEN /\ ~LedgerFull /\ Len(audit_logs) < MaxAudit
            /\ expenses' = Append(expenses,
                    [user_id |-> user_id, category |-> "Food", amount |-> amount,
                     date |-> Str(today), description |-> <<"note">>,
                     from_rule |-> 0, occurrence |-> <<0, 0, 0>>])
            /\ audit_logs' = Append(audit_logs, AuditRow(user_id, "ADD_EXPENSE", "SUCCESS"))
            /\ last' = [op |-> "expense", user_id |-> user_id, amount |-> amount,
                        stored |-> TRUE]
       ELSE /\ UNCHANGED <<expenses, audit_logs>>
            /\ last' = [op |-> "expense", user_id |-> user_id, amount |-> amount,
                        stored |-> FALSE]
    /\ UNCHANGED <<today, rules, nextId, income, tab, calc, goals, authVars>>

\* the expense form: "if submitted and expense_amount > 0", the balance
\* recomputed from the store, and add_expense_to_db
SubmitExpense(user_id, amount) ==
    /\ IF amount > 0 /\ ~(amount > AvailableBalance(user_id))
       THEN /\ ~LedgerFull /\ Len(audit_logs) < MaxAudit
            /\ expenses' = Append(expenses,
                    [user_id |-> user_id, category |-> "Food", amount |-> amount,
                     date |-> Str(today), description |-> <<"note">>,
                     from_rule |-> 0, occurrence |-> <<0, 0, 0>>])
            /\ audit_logs' = Append(audit_logs, AuditRow(user_id, "ADD_EXPENSE", "SUCCESS"))
            /\ last' = [op |-> "expense", user_id |-> user_id, amount |-> amount,
                        stored |-> TRUE]
       ELSE /\ UNCHANGED <<expenses, audit_logs>>
            /\ last' = [op |-> "expense", user_id |-> user_id, amount |-> amount,
                        stored |-> FALSE]
    /\ UNCHANGED <<today, rules, nextId, income, tab, calc, goals, authVars>>

\* add_money_to_goal(user_id, goal_name, amount)
AddMoneyToGoal(user_id, amount) ==
    /\ goals[user_id] < MaxSaved
    /\ goals' = [goals EXCEPT ![user_id] = @ + amount]
    /\ audit_logs' = Append(audit_logs, AuditRow(user_id, "GOAL_DEPOSIT", "SUCCESS"))
    /\ last' = [op |-> "goal", user_id |-> user_id, amount |-> amount]
    /\ UNCHANGED <<today, rules, nextId, income, expenses, tab, calc, authVars>>

\* a load of the expense page: the totals of lines 12-20, shown; the page
\* makes no call of process_recurring_transactions
LoadExpensePage(user_id) ==
    /\ last' = [op |-> "expense_page", user_id |-> user_id,
                total_income |-> Total(income, user_id),
                total_expense |-> Total(expenses, user_id),
                total_saved_in_goals |-> goals[user_id],
                available_balance |-> AvailableBalance(user_id)]
    /\ UNCHANGED <<today, storeVars, tab, calc, goals, authVars>>

\* the pages of one user on one day; the other user only adds income
NextLedger ==
    \/ Process("u1")
    \/ \E ty \in Types :
          AddRecurring("u1", ty, 100, "Monthly", MkDate(2024, 1, 31))
    \/ \E u \in Users, a \in IncomeAmounts : AddIncome(u, a)
    \/ \E a \in ExpenseAmounts : SubmitExpense("u1", a)
    \/ Len(audit_logs) < MaxAudit /\ AddMoneyToGoal("u1", 100)
    \/ LoadExpensePage("u1")

SpecLedger == Init /\ [][NextLedger]_vars

-----------------------------------------------------------------------------
(* The recurring page with its Delete buttons: Monthly rules are added,    *)
(* processed and deleted by the user who owns them.                        *)

NextDelete ==
    \/ \E u \in Users : Process(u)
    \/ \E u \in Users, ty \in Types :
          AddRecurring(u, ty, 100, "Monthly", MkDate(2024, 1, 31))
    \/ \E u \in Users, id \in 1..MaxRules : DeleteRecurring(u, id)
    \/ \E day \in Clock : Tick(day)

SpecDelete == Init /\ [][NextDelete]_vars

-----------------------------------------------------------------------------
(* The store functions of database.py called for a session user with the   *)
(* ids they accept: delete_recurring_transaction takes a rule id and no     *)
(* user, delete_income_from_db and delete_expense_from_db take both.        *)

\* the sequence without its k-th row
RemoveAt(table, k) ==
    [j \in 1..(Len(table) - 1) |-> IF j < k THEN table[j] ELSE table[j + 1]]

\* delete_recurring_transaction(transaction_id): DELETE ... WHERE id = ?
DeleteRecurringTransaction(user_id, transaction_id) ==
    /\ rules' = [i \in DOMAIN rules \ {transaction_id} |-> rules[i]]
    /\ audit_logs' = Append(audit_logs, AuditRow("SYSTEM", "DELETE_RECURRING", "SUCCESS"))
    /\ last' = [NoCall EXCEPT !.op = "delete", !.user_id = user_id]
    /\ UNCHANGED <<today, nextId, income, expenses, tab, calc, goals, authVars>>

\* delete_income_from_db(user_id, income_id): DELETE ... WHERE id = ? AND
\* user_id = ?, the id being that of the k-th row
DeleteIncomeFromDb(user_id, k) ==
    /\ k \in 1..Len(income)
    /\ income' = IF income[k].user_id = user_id THEN RemoveAt(income, k) ELSE income
    /\ audit_logs' = Append(audit_logs, AuditRow(user_id, "DELETE_INCOME", "SUCCESS"))
    /\ last' = [NoCall EXCEPT !.op = "delete_entry", !.user_id = user_id]
    /\ UNCHANGED <<today, nextId, rules, expenses, tab, calc, goals, authVars>>

\* delete_expense_from_db(user_id, expense_id)
DeleteExpenseFromDb(user_id, k) ==
    /\ k \in 1..Len(expenses)
    /\ expenses' = IF expenses[k].user_id = user_id THEN RemoveAt(expenses, k) ELSE expenses
    /\ audit_logs' = Append(audit_logs, AuditRow(user_id, "DELETE_EXPENSE", "SUCCESS"))
    /\ last' = [NoCall EXCEPT !.op = "delete_entry", !.user_id = user_id]
    /\ UNCHANGED <<today, nextId, rules, income, tab, calc, goals, authVars>>

NextStore ==
    \/ \E u \in Users : Process(u)
    \/ \E u \in Users, ty \in Types :
          AddRecurring(u, ty, 100, "Monthly", MkDate(2024, 1, 31))
    \/ \E u \in Users, id \in 1..MaxRules :
          Len(audit_logs) < MaxAudit /\ DeleteRecurringTransaction(u, id)
    \/ \E u \in Users, k \in 1..MaxLedger :
          Len(audit_logs) < MaxAudit /\ DeleteIncomeFromDb(u, k)
    \/ \E u \in Users, k \in 1..MaxLedger :
          Len(audit_logs) < MaxAudit /\ DeleteExpenseFromDb(u, k)
    \/ \E day \in Clock : Tick(day)

SpecStore == Init /\ [][NextStore]_vars

-----------------------------------------------------------------------------
(* Catching up: a store that already holds rules, today held fixed, and    *)
(* the page loaded again and again.  Every load of the recurring page      *)
(* calls process_recurring_transactions for its user, so a call that       *)
(* would change the store is not put off forever.                          *)

CatchUpDay == MkDate(2024, 3, 3)
CatchUpStarts == {MkDate(2024, 2, 29)}

\* the row add_recurring_transaction inserts: next_date = start_date
RecurringRow(user_id, trans_type, amount, frequency, start_date) ==
    [user_id |-> user_id, type |-> trans_type, category |-> CategoryOf(trans_type),
     amount |-> amount, frequency |-> frequency, start_date |-> Str(start_date),
     next_date |-> Str(start_date), description |-> "note"]

CatchUpRows ==
    {RecurringRow(u, ty, 100, f, s) :
        u \in Users, ty \in Types, f \in Frequencies, s \in CatchUpStarts}

InitCatchUp ==
    /\ today = CatchUpDay
    /\ \E n \in 1..MaxRules :
          /\ rules \in [1..n -> CatchUpRows]
          /\ nextId = n + 1
    /\ income = <<>>
    /\ expenses = <<>>
    /\ audit_logs = <<>>
    /\ last = NoCall
    /\ tab = IdleTabs
    /\ calc = IdleCalc
    /\ goals = NoGoals
    /\ now = FirstInstant /\ login_attempts = NoAttempts /\ session = NoSessions

\* process_recurring_transactions(user_id) on one more page load: Process
\* without the ledger bound, the rows read and the open transaction bound
\* to their values
ProcessAgain(user_id) ==
    /\ \E due \in {DueTransactions(rules, user_id, today)} :
          \E st \in {RunProcess(user_id, due, today)} :
             Commit(user_id, due, today, st)
    /\ UNCHANGED <<today, tab, calc, goals, authVars>>

NextCatchUp == \E u \in Users : ProcessAgain(u)

SpecCatchUp ==
    /\ InitCatchUp
    /\ [][NextCatchUp]_vars
    /\ \A u \in Users : WF_vars(ProcessAgain(u))

-----------------------------------------------------------------------------
(* Vocabulary of the properties: calendar arithmetic stated on its own,    *)
(* and the ledger rows that come from a rule.                              *)

(* The login of auth.py.  Every username of Users has an account whose     *)
(* password is "right".  A row of login_attempts is (attempts,              *)
(* locked_until); NoRow stands for no row and locked_until 0 for NULL.      *)
(* last_attempt_time is written and never read and is left out.  One        *)
(* submission of the login form runs to its end before the next.            *)
Passwords == {"right", "wrong"}

\* authenticate_user(username, password)
AuthenticateUser(username, password) == password = "right"

\* mutant: the lock is never looked at
CheckRateLimit_NoLock(table, username, t) ==
    [allowed |-> TRUE, reset |-> FALSE, table |-> table]

\* mutant: an expired lock lets the attempt through and keeps the count
CheckRateLimit_KeepsCount(table, username, t) ==
    LET row == table[username]
    IN  IF row.attempts >= 5 /\ row.locked_until # 0 /\ t < row.locked_until
        THEN [allowed |-> FALSE, reset |-> FALSE, table |-> table]
        ELSE [allowed |-> TRUE, reset |-> FALSE, table |-> table]

\* check_rate_limit(username) at time t: the answer and the table it leaves
CheckRateLimit(table, username, t) ==
    LET row == table[username]
    IN  IF row.attempts >= 5 /\ row.locked_until # 0
        THEN IF t < row.locked_until
             THEN [allowed |-> FALSE, reset |-> FALSE, table |-> table]
             ELSE [allowed |-> TRUE, reset |-> TRUE,
                   table |-> [table EXCEPT ![username] = NoRow]]
        ELSE [allowed |-> TRUE, reset |-> FALSE, table |-> table]

\* record_failed_attempt(username) at time t
RecordFailedAttempt(table, username, t) ==
    LET new_attempts == table[username].attempts + 1
    IN  [table EXCEPT ![username] =
            [attempts |-> new_attempts,
             locked_until |-> IF new_attempts >= 5 THEN t + 900 ELSE 0]]

\* reset_attempts(username)
ResetAttempts(table, username) == [table EXCEPT ![username] = NoRow]

\* the login form submitted in a session that is not logged in
LoginSubmit(s, username, password) ==
    /\ session[s].username = ""
    /\ \E rl \in {CheckRateLimit(login_attempts, username, now)} :
          IF ~rl.allowed
          THEN /\ login_attempts' = rl.table
               /\ UNCHANGED session
               /\ last' = [op |-> "login", session |-> s, username |-> username,
                           password |-> password, allowed |-> FALSE, reset |-> FALSE,
                           checked |-> FALSE, success |-> FALSE]
          ELSE IF AuthenticateUser(username, password)
          THEN /\ login_attempts' = ResetAttempts(rl.table, username)
               /\ session' = [session EXCEPT ![s] =
                                 [username |-> username, full_name |-> "name",
                                  login_time |-> now]]
               /\ last' = [op |-> "login", session |-> s, username |-> username,
                           password |-> password, allowed |-> TRUE, reset |-> rl.reset,
                           checked |-> TRUE, success |-> TRUE]
          ELSE /\ login_attempts' = RecordFailedAttempt(rl.table, username, now)
               /\ UNCHANGED session
               /\ last' = [op |-> "login", session |-> s, username |-> username,
                           password |-> password, allowed |-> TRUE, reset |-> rl.reset,
                           checked |-> TRUE, success |-> FALSE]
    /\ UNCHANGED <<today, storeVars, tab, calc, goals, now>>

\* mutant: every check of a live session restarts its 30 minutes
CheckAuthentication_Refreshes(s) ==
    /\ IF session[s].username # ""
       THEN IF session[s].login_time # 0 /\ now - session[s].login_time > 1800
            THEN /\ session' = [session EXCEPT ![s] = NoSession]
                 /\ last' = [op |-> "check", session |-> s, returned |-> "",
                             expired |-> TRUE]
            ELSE /\ session' = [session EXCEPT ![s].login_time = now]
                 /\ last' = [op |-> "check", session |-> s,
                             returned |-> session[s].username, expired |-> FALSE]
       ELSE /\ UNCHANGED session
            /\ last' = [op |-> "check", session |-> s, returned |-> "",
                        expired |-> FALSE]
    /\ UNCHANGED <<today, storeVars, tab, calc, goals, now, login_attempts>>

\* check_authentication() at the top of a page load of session s: the
\* username it returns, "" where it shows the login form instead
CheckAuthentication(s) ==
    /\ IF session[s].username # ""
       THEN IF session[s].login_time # 0 /\ now - session[s].login_time > 1800
            THEN /\ session' = [session EXCEPT ![s] = NoSession]
                 /\ last' = [op |-> "check", session |-> s, returned |-> "",
                             expired |-> TRUE]
            ELSE /\ UNCHANGED session
                 /\ last' = [op |-> "check", session |-> s,
                             returned |-> session[s].username, expired |-> FALSE]
       ELSE /\ UNCHANGED session
            /\ last' = [op |-> "check", session |-> s, returned |-> "",
                        expired |-> FALSE]
    /\ UNCHANGED <<today, storeVars, tab, calc, goals, now, login_attempts>>

\* the Logout button: every key of st.session_state is deleted
Logout(s) ==
    /\ session[s].username # ""
    /\ session' = [session EXCEPT ![s] = NoSession]
    /\ last' = [op |-> "logout", session |-> s]
    /\ UNCHANGED <<today, storeVars, tab, calc, goals, now, login_attempts>>

\* time.time() has moved on
AdvanceClock(t) ==
    /\ t > now
    /\ now' = t
    /\ UNCHANGED <<today, storeVars, last, tab, calc, goals, login_attempts, session>>

NextAuth ==
    \/ \E s \in Sessions, u \in Users, p \in Passwords : LoginSubmit(s, u, p)
    \/ \E s \in Sessions : CheckAuthentication(s)
    \/ \E s \in Sessions : Logout(s)
    \/ \E t \in Instants : AdvanceClock(t)

SpecAuth == Init /\ [][NextAuth]_vars

-----------------------------------------------------------------------------
Min(a, b) == IF a <= b THEN a ELSE b

\* the ISO date k calendar months after s, the day clamped to the month
MonthsLater(s, k) ==
    LET t == s[1] * 12 + (s[2] - 1) + k
        y == t \div 12
        m == (t % 12) + 1
    IN  <<y, m, Min(s[3], DaysInMonth(y, m))>>

\* the proleptic Gregorian ordinal of an ISO date
DayNumber(s) ==
    LET y == s[1] - 1
        before == <<0, 31, 59, 90, 120, 151, 181, 212, 243, 273, 304, 334>>
    IN  365 * y + (y \div 4) - (y \div 100) + (y \div 400)
        + before[s[2]] + (IF s[2] > 2 /\ IsLeap(s[1]) THEN 1 ELSE 0) + s[3]

MonthsOf(frequency) ==
    IF frequency = "Monthly" THEN 1
    ELSE IF frequency = "3 Months" THEN 3
    ELSE IF frequency = "6 Months" THEN 6
    ELSE 12

\* new is one frequency step after old
OneStepAfter(old, new, frequency) ==
    IF frequency = "Daily" THEN DayNumber(new) = DayNumber(old) + 1
    ELSE IF frequency = "Weekly" THEN DayNumber(new) = DayNumber(old) + 7
    ELSE new = MonthsLater(old, MonthsOf(frequency))

\* the number of rows of a table after position from that rule id produced
RowsOf(table, from, id) ==
    Cardinality({k \in (from + 1)..Len(table) : table[k].from_rule = id})

IsDue(rule, day) == SqlDateLE(rule.next_date, Str(day))

RulesOf(user_id) == {i \in DOMAIN rules : rules[i].user_id = user_id}

-----------------------------------------------------------------------------
(* C1: single-step catch-up.  A call of process(owner) gives every rule of  *)
(* the owner that is due exactly one new ledger row and moves its          *)
(* next_date exactly one frequency step, however overdue it is.            *)
C1_SingleStepCatchUp ==
    [][\A u \in Users : Process(u) =>
        \A i \in RulesOf(u) : IsDue(rules[i], today) =>
            /\ RowsOf(income', 0, i) + RowsOf(expenses', 0, i)
                 = RowsOf(income, 0, i) + RowsOf(expenses, 0, i) + 1
            /\ OneStepAfter(rules[i].next_date, rules'[i].next_date, rules[i].frequency)]_vars

-----------------------------------------------------------------------------
(* C2 as claimed: two process calls of one owner in a row on the same day, *)
(* the first with a rule due, leave exactly one row for that rule in total.*)
SecondCallOf(u) ==
    /\ last.op = "process"
    /\ last.user_id = u
    /\ last.today = Str(today)
    /\ Process(u)

RowsOfBoth(id) ==
    RowsOf(income', last.n_income, id) + RowsOf(expenses', last.n_expenses, id)

OnePeriodBehind(row, day) ==
    IF row.frequency = "Daily" THEN DayNumber(row.next_date) + 1 > DayNumber(Str(day))
    ELSE IF row.frequency = "Weekly" THEN DayNumber(row.next_date) + 7 > DayNumber(Str(day))
    ELSE ~SqlDateLE(MonthsLater(row.next_date, MonthsOf(row.frequency)), Str(day))

-----------------------------------------------------------------------------
(* C3: when two calls of one owner overlap, no occurrence of a rule (the    *)
(* rule and the next_date it was due at) is materialized twice.            *)
Occurrences(table) == {<<table[k].from_rule, table[k].occurrence>> : k \in 1..Len(table)}

RowsOfOccurrence(table, occ) ==
    Cardinality({k \in 1..Len(table) :
                    <<table[k].from_rule, table[k].occurrence>> = occ})

C3_NoOccurrenceTwice ==
    \A occ \in Occurrences(income) \cup Occurrences(expenses) :
        RowsOfOccurrence(income, occ) + RowsOfOccurrence(expenses, occ) = 1

-----------------------------------------------------------------------------
(* C4: a call for an owner none of whose rules is due returns 0 and leaves *)
(* the rules, both ledgers and the audit log as they were.                  *)
C4_NoOpWhenNothingDue ==
    [][\A u \in Users :
        ((\A i \in RulesOf(u) : ~IsDue(rules[i], today)) /\ Process(u)) =>
            /\ ~last'.raised
            /\ last'.ret = 0
            /\ UNCHANGED storeVars]_vars

\* a call has just returned 0 for an owner who has rules, none of them due,
\* while a rule of somebody else is due
C4_Witness ==
    /\ last.op = "process" /\ last.ret = 0 /\ ~last.raised
    /\ last.today = Str(today)
    /\ RulesOf(last.user_id) # {}
    /\ \A i \in RulesOf(last.user_id) : ~IsDue(rules[i], today)
    /\ \E i \in DOMAIN rules : IsDue(rules[i], today)

-----------------------------------------------------------------------------
(* C5 as claimed: the owner's one rule is a Monthly Income rule with        *)
(* start_date D; the first call on day D appends one income row of the     *)
(* rule's amount and moves next_date to the same day of the following      *)
(* month; the next call on that day appends nothing and returns 0.         *)
FirstCallOnStartDay(u, i) ==
    /\ RulesOf(u) = {i}
    /\ rules[i].type = "Income" /\ rules[i].frequency = "Monthly"
    /\ rules[i].start_date = Str(today)
    /\ rules[i].next_date = rules[i].start_date
    /\ Process(u)

SameDayNextMonth(s) == IF s[2] = 12 THEN <<s[1] + 1, 1, s[3]>> ELSE <<s[1], s[2] + 1, s[3]>>

OneIncomeRowAdded(u, i) ==
    /\ Len(income') = Len(income) + 1
    /\ SubSeq(income', 1, Len(income)) = income
    /\ income'[Len(income')].user_id = u
    /\ income'[Len(income')].amount = rules[i].amount
    /\ income'[Len(income')].from_rule = i
    /\ expenses' = expenses
    /\ ~last'.raised /\ last'.ret = 1

SecondCallOnStartDay(u, i) ==
    /\ RulesOf(u) = {i}
    /\ rules[i].type = "Income" /\ rules[i].frequency = "Monthly"
    /\ rules[i].start_date = Str(today)
    /\ ~last.raised /\ Len(last.due) = 1 /\ last.due[1].id = i
    /\ last.due[1].next_date = rules[i].start_date
    /\ SecondCallOf(u)

NothingAdded ==
    /\ income' = income /\ expenses' = expenses
    /\ ~last'.raised /\ last'.ret = 0

C5_EndToEndSameDay ==
    [][\A u \in Users, i \in DOMAIN rules :
        /\ FirstCallOnStartDay(u, i) =>
              /\ OneIncomeRowAdded(u, i)
              /\ rules'[i].next_date = SameDayNextMonth(rules[i].start_date)
        /\ SecondCallOnStartDay(u, i) => NothingAdded]_vars

(* C5 amended: as claimed, with next_date moved to the same day of the      *)
(* following month or, when that month has no such day, to its last day.   *)
C5_EndToEndClamped ==
    [][\A u \in Users, i \in DOMAIN rules :
        /\ FirstCallOnStartDay(u, i) =>
              /\ OneIncomeRowAdded(u, i)
              /\ rules'[i].next_date =
                    (IF SameDayNextMonth(rules[i].start_date)[3]
                          <= DaysInMonth(SameDayNextMonth(rules[i].start_date)[1],
                                         SameDayNextMonth(rules[i].start_date)[2])
                     THEN SameDayNextMonth(rules[i].start_date)
                     ELSE <<SameDayNextMonth(rules[i].start_date)[1],
                            SameDayNextMonth(rules[i].start_date)[2],
                            DaysInMonth(SameDayNextMonth(rules[i].start_date)[1],
                                        SameDayNextMonth(rules[i].start_date)[2])>>)
        /\ SecondCallOnStartDay(u, i) => NothingAdded]_vars

\* the second call of the scenario has just returned 0: the owner's one
\* Monthly Income rule has its start-day row and is a month further
C5_Witness ==
    /\ last.op = "process" /\ last.ret = 0 /\ ~last.raised
    /\ last.today = Str(today)
    /\ \E i \in DOMAIN rules :
          /\ RulesOf(last.user_id) = {i}
          /\ rules[i].type = "Income" /\ rules[i].frequency = "Monthly"
          /\ rules[i].start_date = Str(today)
          /\ rules[i].next_date # rules[i].start_date
          /\ Len(income) = last.n_income
          /\ \E k \in 1..Len(income) :
                /\ income[k].from_rule = i
                /\ income[k].date = Str(today)
                /\ income[k].amount = rules[i].amount

-----------------------------------------------------------------------------
(* C6: no partial-rule rollback.  When a call fails on one due rule, every  *)
(* other due rule of the call, before or after it, keeps its new ledger    *)
(* row and its advanced next_date.                                         *)
StepFails(row) ==
    \/ Strptime(row.next_date).raised
    \/ NewNextDate(Strptime(row.next_date).value, row.frequency).raised

C6_NoPartialRollback ==
    [][\A u \in Users : (Process(u) /\ last'.raised) =>
        \A k \in 1..Len(last'.due) : ~StepFails(last'.due[k]) =>
            /\ RowsOf(income', 0, last'.due[k].id) + RowsOf(expenses', 0, last'.due[k].id)
                 = RowsOf(income, 0, last'.due[k].id) + RowsOf(expenses, 0, last'.due[k].id) + 1
            /\ OneStepAfter(last'.due[k].next_date, rules'[last'.due[k].id].next_date,
                            last'.due[k].frequency)]_vars

-----------------------------------------------------------------------------
(* C7: a call of process never ends in an exception; it returns a count.    *)
C7_ProcessNeverRaises ==
    last.op = "process" => (~last.raised /\ last.ret >= 0)

-----------------------------------------------------------------------------
(* C8: the next-date computation never raises on a calendar date with one   *)
(* of the six frequencies; its result is a calendar date, and for the      *)
(* month-based frequencies a day the target month lacks becomes that       *)
(* month's last day.                                                       *)
MonthBased == {"Monthly", "3 Months", "6 Months", "Yearly"}

C8_NextDateNeverRaises ==
    calc.n > 0 =>
        /\ ~calc.raised
        /\ calc.date \in Nat \X (1..12) \X (1..31)
        /\ calc.date[3] <= DaysInMonth(calc.date[1], calc.date[2])
        /\ calc.frequency \in MonthBased =>
              calc.date[3] = Min(calc.prev[3], DaysInMonth(calc.date[1], calc.date[2]))

-----------------------------------------------------------------------------
(* C9: a Monthly step lands in the following month on the same day, or on   *)
(* that month's last day when it has no such day, and the step after it    *)
(* starts from the date so reached: Jan 31 -> Feb 28 (29) -> Mar 28 (29).  *)
C9_MonthlyClampNonRetroactive ==
    (calc.frequency = "Monthly" /\ calc.n > 0) =>
        /\ ~calc.raised
        /\ <<calc.date[1], calc.date[2]>> =
              (IF calc.prev[2] = 12 THEN <<calc.prev[1] + 1, 1>>
               ELSE <<calc.prev[1], calc.prev[2] + 1>>)
        /\ calc.date[3] = Min(calc.prev[3], DaysInMonth(calc.date[1], calc.date[2]))
        /\ calc.n = 2 => calc.date = MonthsLater(MonthsLater(calc.first, 1), 1)
        /\ (calc.first = <<2023, 1, 31>> /\ calc.n = 1) => calc.date = <<2023, 2, 28>>
        /\ (calc.first = <<2023, 1, 31>> /\ calc.n = 2) => calc.date = <<2023, 3, 28>>
        /\ (calc.first = <<2024, 1, 31>> /\ calc.n = 1) => calc.date = <<2024, 2, 29>>
        /\ (calc.first = <<2024, 1, 31>> /\ calc.n = 2) => calc.date = <<2024, 3, 29>>

\* Jan 31 of a common year has been advanced twice by a Monthly step
C9_Witness ==
    /\ calc.frequency = "Monthly" /\ calc.n = 2 /\ ~calc.raised
    /\ calc.first = <<2023, 1, 31>>
    /\ calc.prev = <<2023, 2, 28>>
    /\ calc.date = <<2023, 3, 28>>

-----------------------------------------------------------------------------
(* C10: 3 Months, 6 Months and Yearly move the date 3, 6 and 12 calendar    *)
(* months on, the year rolling over past December and the day clamped to   *)
(* the target month; Daily adds one day and Weekly seven.                  *)
C10_CalendarSteps ==
    (calc.n > 0 /\ calc.frequency # "Monthly") =>
        /\ ~calc.raised
        /\ OneStepAfter(calc.prev, calc.date, calc.frequency)

-----------------------------------------------------------------------------
-----------------------------------------------------------------------------
(* C12: every rule has next_date >= start_date; next_date is start_date at  *)
(* creation, is changed by a process call only, never moves backward, and  *)
(* every change is exactly one frequency step from the value before.       *)
C12_NextDateOnlyStepsForward ==
    [][\A i \in DOMAIN rules' :
        /\ SqlDateLE(rules'[i].start_date, rules'[i].next_date)
        /\ i \notin DOMAIN rules => rules'[i].next_date = rules'[i].start_date
        /\ (i \in DOMAIN rules /\ rules'[i].next_date # rules[i].next_date) =>
              /\ last'.op = "process"
              /\ SqlDateLE(rules[i].next_date, rules'[i].next_date)
              /\ OneStepAfter(rules[i].next_date, rules'[i].next_date,
                              rules[i].frequency)]_vars

-----------------------------------------------------------------------------
(* C13: a rule is inactive before its start_date.  A call of process(owner) *)
(* made with today < start_date adds no ledger row for the rule and leaves  *)
(* its next_date alone, and for a rule that has no ledger row yet a call    *)
(* made with today >= start_date produces its first row.                    *)
RowsEver(table, id) == RowsOf(table, 0, id)

C13_InactiveBeforeStart ==
    [][\A u \in Users : \A i \in RulesOf(u) :
        Process(u) =>
            IF DateLT(today, Strptime(rules[i].start_date).value)
            THEN /\ RowsEver(income', i) + RowsEver(expenses', i)
                      = RowsEver(income, i) + RowsEver(expenses, i)
                 /\ rules'[i].next_date = rules[i].next_date
            ELSE RowsEver(income, i) + RowsEver(expenses, i) = 0
                    => RowsEver(income', i) + RowsEver(expenses', i) = 1]_vars

-----------------------------------------------------------------------------
(* C14: every ledger row a call of process(owner) adds is dated today, not  *)
(* with the rule's next_date, carries the owner, amount and category of the *)
(* rule it was made from, and is an income row for an Income rule and an    *)
(* expense row for an Expense rule.                                         *)
NewRows(before, after) == {after[k] : k \in (Len(before) + 1)..Len(after)}

C14_EntryDatedTodayOfRuleKind ==
    [][\A u \in Users : Process(u) =>
        /\ \A r \in NewRows(income, income') :
              /\ r.date = Str(today)
              /\ r.user_id = u
              /\ rules[r.from_rule].user_id = u
              /\ rules[r.from_rule].type = "Income"
              /\ r.amount = rules[r.from_rule].amount
              /\ r.source = rules[r.from_rule].category
        /\ \A r \in NewRows(expenses, expenses') :
              /\ r.date = Str(today)
              /\ r.user_id = u
              /\ rules[r.from_rule].user_id = u
              /\ rules[r.from_rule].type = "Expense"
              /\ r.amount = rules[r.from_rule].amount
              /\ r.category = rules[r.from_rule].category]_vars

\* a call has just added an income row and an expense row, both dated today,
\* the income row for an occurrence that was due a month earlier
C14_Witness ==
    /\ last.op = "process" /\ ~last.raised /\ last.ret = 2
    /\ last.today = Str(today)
    /\ Len(income) = last.n_income + 1
    /\ Len(expenses) = last.n_expenses + 1
    /\ income[Len(income)].date = Str(today)
    /\ income[Len(income)].occurrence # Str(today)
    /\ expenses[Len(expenses)].date = Str(today)

-----------------------------------------------------------------------------
(* C15: the value a call of process(owner) returns is the number of the     *)
(* owner's rules that were due when the call began, and that is the number  *)
(* of income and expense rows the call added to the store.                  *)
C15_ReturnCountsDueAndAdded ==
    [][\A u \in Users : Process(u) =>
        /\ last'.ret = Cardinality({i \in RulesOf(u) : IsDue(rules[i], today)})
        /\ last'.ret = (Len(income') - Len(income)) + (Len(expenses') - Len(expenses))]_vars

-----------------------------------------------------------------------------
(* C16: catch-up completes.  With today held fixed and process(owner)       *)
(* called again and again, from some call on every rule of the owner has    *)
(* its next_date after today and the calls of the owner return 0; this for  *)
(* every rule the store can hold.                                           *)
CaughtUp(u) == \A i \in RulesOf(u) : ~IsDue(rules[i], today)

C16_CatchUpCompletes ==
    \A u \in Users :
        <>[](/\ CaughtUp(u)
             /\ (last.op = "process" /\ last.user_id = u) => (~last.raised /\ last.ret = 0))

-----------------------------------------------------------------------------
(* C17: deletion is non-retroactive.  A step that deletes a recurring rule  *)
(* removes that rule row and nothing else: the income and expense tables,   *)
(* with every row made from the rule, and all other rules stay as they are. *)
C17_DeletionNonRetroactive ==
    [][\A id \in DOMAIN rules : id \notin DOMAIN rules' =>
        /\ income' = income
        /\ expenses' = expenses
        /\ DOMAIN rules' = DOMAIN rules \ {id}
        /\ \A j \in DOMAIN rules' : rules'[j] = rules[j]]_vars

\* a rule has just been deleted and ledger rows made from it are still there
C17_Witness ==
    /\ last.op = "delete"
    /\ \E k \in 1..Len(income) : income[k].from_rule \notin DOMAIN rules
    /\ \E k \in 1..Len(expenses) : expenses[k].from_rule \notin DOMAIN rules

-----------------------------------------------------------------------------
(* C18: owner isolation.  A store operation performed for one owner (list,  *)
(* process, delete rule, delete entry, add) reads no rule of another owner  *)
(* and leaves every rule and every ledger row of the other owners as it is. *)
RulesNotOf(store, u) == {<<i, store[i]>> : i \in {j \in DOMAIN store : store[j].user_id # u}}

RowsNotOf(table, u) ==
    LET Other(r) == r.user_id # u
    IN  SelectSeq(table, Other)

C18_OwnerIsolation ==
    [][\A u \in Users :
        (last'.user_id = u /\ last'.op \in {"process", "add", "rejected", "delete", "delete_entry"}) =>
            /\ RulesNotOf(rules', u) = RulesNotOf(rules, u)
            /\ RowsNotOf(income', u) = RowsNotOf(income, u)
            /\ RowsNotOf(expenses', u) = RowsNotOf(expenses, u)
            /\ last'.op = "process" =>
                  \A k \in 1..Len(last'.due) : rules[last'.due[k].id].user_id = u]_vars

-----------------------------------------------------------------------------
(* C19: a call of process(owner) changes nothing of a rule but next_date:   *)
(* user, type, category, amount, frequency, start_date and description of   *)
(* every rule stay as they were, under the same id, and the call neither    *)
(* creates nor deletes a rule.                                              *)
C19_ProcessChangesOnlyNextDate ==
    [][\A u \in Users : (last'.op = "process" /\ Process(u)) =>
        /\ DOMAIN rules' = DOMAIN rules
        /\ nextId' = nextId
        /\ \A i \in DOMAIN rules :
              [rules'[i] EXCEPT !.next_date = rules[i].next_date] = rules[i]]_vars

\* a call has just advanced a rule: its next_date has left its start_date
C19_Witness ==
    /\ last.op = "process" /\ ~last.raised /\ last.ret > 0
    /\ \E k \in 1..Len(last.due) :
          /\ last.due[k].id \in DOMAIN rules
          /\ rules[last.due[k].id].next_date # last.due[k].next_date
          /\ rules[last.due[k].id].next_date # rules[last.due[k].id].start_date

-----------------------------------------------------------------------------
(* C20: amount > 0 is enforced when a rule is created.  A request to add a  *)
(* rule with amount <= 0 is rejected and leaves the store as it was, and no *)
(* rule in the store ever has an amount of zero or less.                    *)
C20_AmountPositiveAtCreation ==
    [][/\ \A i \in DOMAIN rules' : rules'[i].amount > 0
       /\ last'.op = "rejected" => UNCHANGED storeVars
       /\ (last'.op = "add" /\ last' # last) =>
             /\ DOMAIN rules' = DOMAIN rules \cup {nextId}
             /\ rules'[nextId].amount > 0]_vars

\* a request with amount 0 has just been rejected, the store holding a rule
C20_Witness ==
    /\ last.op = "rejected"
    /\ rules # <<>>
    /\ \A i \in DOMAIN rules : rules[i].amount > 0

-----------------------------------------------------------------------------
(* C21: an unknown frequency is rejected.  Given a frequency that is none   *)
(* of the six, the next-date computation and the monthly-equivalent         *)
(* computation both fail with an error and return no date and no amount.    *)
C21_UnknownFrequencyRejected ==
    (calc.done # "none" /\ calc.frequency \notin Frequencies) => calc.raised

-----------------------------------------------------------------------------
(* C22: monthly_equivalent(amount, frequency) is amount * 30 for Daily,     *)
(* amount * 4.33 for Weekly, amount for Monthly, amount / 3 for 3 Months,   *)
(* amount / 6 for 6 Months and amount / 12 for Yearly; 1200 Yearly gives    *)
(* 100 and 1400 Weekly gives 6062.                                          *)
C22_MonthlyEquivalentFactors ==
    (calc.done = "equivalent" /\ calc.frequency \in Frequencies) =>
        /\ ~calc.raised
        /\ calc.frequency = "Daily" => calc.value = 30 * calc.amount * Unit
        /\ calc.frequency = "Weekly" => 100 * calc.value = 433 * calc.amount * Unit
        /\ calc.frequency = "Monthly" => calc.value = calc.amount * Unit
        /\ calc.frequency = "3 Months" => 3 * calc.value = calc.amount * Unit
        /\ calc.frequency = "6 Months" => 6 * calc.value = calc.amount * Unit
        /\ calc.frequency = "Yearly" => 12 * calc.value = calc.amount * Unit
        /\ (calc.frequency = "Yearly" /\ calc.amount = 1200) => calc.value = 100 * Unit
        /\ (calc.frequency = "Weekly" /\ calc.amount = 1400) => calc.value = 6062 * Unit

\* the monthly equivalent of 1400 Weekly has been computed
C22_Witness ==
    /\ calc.done = "equivalent"
    /\ calc.frequency = "Weekly" /\ calc.amount = 1400
    /\ calc.value = 6062 * Unit

-----------------------------------------------------------------------------
(* C23: the recurring projection depends only on the current rules.         *)
(* Monthly recurring income and expense are the sums of the monthly         *)
(* equivalents of the owner's Income and Expense rules, net monthly is      *)
(* their difference, and a call of process leaves the three figures of      *)
(* every owner as they were.                                                *)
C23_ProjectionUnchangedByProcess ==
    [][\A u \in Users : (last'.op = "process" /\ last'.user_id = u /\ Process(u)) =>
        \A v \in Users :
            LET in_before == TotalMonthly(v, "Income")
                out_before == TotalMonthly(v, "Expense")
                in_after == TotalMonthly(v, "Income")'
                out_after == TotalMonthly(v, "Expense")'
                net_after == NetMonthly(v)'
            IN  /\ in_after = in_before
                /\ out_after = out_before
                /\ net_after = NetMonthly(v)
                /\ net_after = in_after - out_after]_vars

\* a call has just materialized an income and an expense rule of an owner
\* whose projection is 100 a month in and 100 a year out
C23_Witness ==
    /\ last.op = "process" /\ ~last.raised /\ last.ret = 2
    /\ Len(income) > last.n_income /\ Len(expenses) > last.n_expenses
    /\ TotalMonthly(last.user_id, "Income") = 100 * Unit
    /\ 12 * TotalMonthly(last.user_id, "Expense") = 100 * Unit
    /\ 12 * NetMonthly(last.user_id) = 1100 * Unit

-----------------------------------------------------------------------------
(* C24: the ledger totals make no difference between manual and             *)
(* materialized rows.  total_income and total_expense are the sums over all *)
(* rows of the owner, the balance is total_income - total_expense - the     *)
(* money saved in goals, and a call of process raises total_income          *)
(* (total_expense) by the amount of each Income (Expense) rule it           *)
(* materializes and leaves the totals of the other owners alone.            *)
RECURSIVE SumDue(_, _)
SumDue(due, type) ==
    IF due = <<>> THEN 0
    ELSE (IF Head(due).type = type THEN Head(due).amount ELSE 0) + SumDue(Tail(due), type)

C24_TotalsCountMaterializedRows ==
    [][\A u \in Users : (last'.op = "process" /\ ~last'.raised /\ Process(u)) =>
        /\ Total(income, u)' = Total(income, u) + SumDue(last'.due, "Income")
        /\ Total(expenses, u)' = Total(expenses, u) + SumDue(last'.due, "Expense")
        /\ AvailableBalance(u)' = AvailableBalance(u) + SumDue(last'.due, "Income")
                                     - SumDue(last'.due, "Expense")
        /\ \A v \in Users \ {u} :
              /\ Total(income, v)' = Total(income, v)
              /\ Total(expenses, v)' = Total(expenses, v)]_vars

\* a call has just materialized an Income rule of 100 for an owner who has a
\* manual income of 200 and 100 saved in a goal: 300 in, balance 200
C24_Witness ==
    /\ last.op = "process" /\ ~last.raised /\ last.ret = 1
    /\ \E k \in 1..Len(income) : income[k].user_id = last.user_id /\ income[k].from_rule = 0
    /\ \E k \in 1..Len(income) : income[k].user_id = last.user_id /\ income[k].from_rule # 0
    /\ goals[last.user_id] = 100
    /\ Total(income, last.user_id) = 300
    /\ AvailableBalance(last.user_id) = 200

-----------------------------------------------------------------------------
-----------------------------------------------------------------------------
(* C30: a manual expense is stored only if its amount is > 0 and <= the     *)
(* available balance recomputed from the store when it is submitted; then   *)
(* exactly one expense row is added and the balance stays >= 0, otherwise   *)
(* the expenses are left as they were.  Materialization by process is not   *)
(* subject to this check.                                                   *)
C30_ManualExpenseWithinBalance ==
    [][\A u \in Users :
        (last'.op = "expense" /\ \E a \in ExpenseAmounts : SubmitExpense(u, a)) =>
            /\ last'.stored <=>
                  (last'.amount > 0 /\ last'.amount <= AvailableBalance(u))
            /\ last'.stored =>
                  /\ Len(expenses') = Len(expenses) + 1
                  /\ expenses'[Len(expenses')].amount = last'.amount
                  /\ expenses'[Len(expenses')].from_rule = 0
                  /\ AvailableBalance(u)' = AvailableBalance(u) - last'.amount
                  /\ AvailableBalance(u)' >= 0
            /\ ~last'.stored => expenses' = expenses]_vars

\* a manual expense was stored, a materialized Expense then took the balance
\* below zero, and the next manual expense of a positive amount is refused
C30_Witness ==
    /\ last.op = "expense" /\ ~last.stored /\ last.amount > 0
    /\ AvailableBalance(last.user_id) < 0
    /\ \E k \in 1..Len(expenses) :
          expenses[k].user_id = last.user_id /\ expenses[k].from_rule = 0
    /\ \E k \in 1..Len(expenses) :
          expenses[k].user_id = last.user_id /\ expenses[k].from_rule # 0

-----------------------------------------------------------------------------
(* C26: entry and advance are committed together.  After any sequence of    *)
(* process calls, aborted ones included, the number of ledger rows          *)
(* materialized from a rule is the number of frequency steps its next_date  *)
(* has been advanced from start_date, and every materialized row belongs to *)
(* a stored rule.                                                           *)
NoDate == <<0, 0, 0>>

RECURSIVE Advanced(_, _, _)
\* the ISO date n frequency steps after s, NoDate where a step raises
Advanced(s, frequency, n) ==
    IF n = 0 THEN s
    ELSE LET p == Advanced(s, frequency, n - 1)
         IN  IF p = NoDate \/ Strptime(p).raised THEN NoDate
             ELSE LET q == NewNextDate(Strptime(p).value, frequency)
                  IN  IF q.raised THEN NoDate ELSE Str(q.value)

C26_EntryAndAdvanceTogether ==
    /\ \A i \in DOMAIN rules :
          rules[i].next_date =
              Advanced(rules[i].start_date, rules[i].frequency,
                       RowsEver(income, i) + RowsEver(expenses, i))
    /\ \A k \in 1..Len(income) :
          income[k].from_rule # 0 => income[k].from_rule \in DOMAIN rules
    /\ \A k \in 1..Len(expenses) :
          expenses[k].from_rule # 0 => expenses[k].from_rule \in DOMAIN rules

\* a call has just aborted although a rule of its owner, materialized once
\* by an earlier call, was due again: that rule still has one row, one step
C26_Witness ==
    /\ last.op = "process" /\ last.raised
    /\ \E i \in RulesOf(last.user_id) :
          /\ RowsEver(income, i) + RowsEver(expenses, i) = 1
          /\ rules[i].next_date # rules[i].start_date
          /\ IsDue(rules[i], today)

-----------------------------------------------------------------------------
(* C27: login lockout.  The 5th consecutive failed login of a username      *)
(* locks it for 900 seconds from that failure; while the lock runs every    *)
(* login attempt for the username is refused without the password being     *)
(* checked, a correct one included, and leaves the failure count and        *)
(* locked_until as they were.                                               *)
Locked(u) == login_attempts[u].attempts >= 5 /\ now < login_attempts[u].locked_until

C27_LockoutRejectsUnchecked ==
    [][\A u \in Users :
        /\ (login_attempts[u].attempts = 4 /\ login_attempts'[u].attempts = 5) =>
              login_attempts'[u].locked_until = now + 900
        /\ (Locked(u) /\ \E s \in Sessions, p \in Passwords : LoginSubmit(s, u, p)) =>
              /\ ~last'.allowed /\ ~last'.checked /\ ~last'.success
              /\ login_attempts' = login_attempts
              /\ session' = session
        /\ (Locked(u) /\ now' < login_attempts[u].locked_until) =>
              login_attempts'[u] = login_attempts[u]]_vars

\* 899 seconds into the lock the right password has just been refused
C27_Witness ==
    /\ last.op = "login" /\ last.password = "right" /\ ~last.allowed
    /\ login_attempts[last.username] = [attempts |-> 5, locked_until |-> 1000]
    /\ now = 999

-----------------------------------------------------------------------------
(* C28: the failure count of a username is cleared only by a successful     *)
(* login or by the first attempt after the lock has expired; that attempt   *)
(* and the four after it have their password checked before the next lock;  *)
(* a count below 5 is kept however much time passes, and every checked      *)
(* failure adds one to it.                                                  *)
C28_CountClearedOnlyBySuccessOrExpiry ==
    [][\A u \in Users :
        /\ login_attempts'[u].attempts < login_attempts[u].attempts =>
              /\ last'.op = "login" /\ last'.username = u
              /\ \/ last'.success
                 \/ /\ login_attempts[u].attempts >= 5
                    /\ now >= login_attempts[u].locked_until
                    /\ last'.reset
        /\ (\E s \in Sessions, p \in Passwords : LoginSubmit(s, u, p)) =>
              /\ (last'.checked /\ ~last'.success) =>
                    login_attempts'[u].attempts =
                        (IF login_attempts[u].attempts >= 5 THEN 0
                         ELSE login_attempts[u].attempts) + 1
              /\ login_attempts[u].attempts < 5 => last'.checked
        /\ (login_attempts'[u].attempts < 5) <=> (login_attempts'[u].locked_until = 0)
        /\ login_attempts'[u].attempts <= 5]_vars

\* the first attempt after the lock ran out was checked, failed and is
\* counted as the first of five; another username, four failures old, still
\* has its count of 4
C28_Witness ==
    /\ last.op = "login" /\ last.reset /\ last.checked /\ ~last.success
    /\ login_attempts[last.username] = [attempts |-> 1, locked_until |-> 0]
    /\ \E v \in Users \ {last.username} : login_attempts[v].attempts = 4

-----------------------------------------------------------------------------
====
